---- MODULE Spec2Model ----
(***************************************************************************)
(* Tool-provider orchestration and conversation loop:                      *)
(*   Servers      (examples/chatbots/python/server_clients/servers.py)     *)
(*   ChatSession  (e2e_tests/python/chat_session.py)                       *)
(*   Tool         (examples/chatbots/python/server_clients/tool.py)        *)
(*   StdioServer  (examples/chatbots/python/server_clients/stdio_server.py)*)
(*   LambdaFunctionClient (e2e_tests/python/server_clients/                *)
(*                         lambda_function.py)                             *)
(* The Server base class (server_clients/server.py) and the model gateway  *)
(* are collaborators: their calls are steps whose outcome is chosen        *)
(* nondeterministically among the outcomes their interface allows.         *)
(* A content block, a dict with the one key "text", "toolUse" or           *)
(* "toolResult" in the code, is a record tagged with that key.             *)
(***************************************************************************)
EXTENDS Integers, Sequences, FiniteSets, TLC

\* ---------------------------------------------------------------- bounds
NumServers == 2          \* length of the provider list given to the session
NumUtterances == 2       \* length of user_utterances
MaxToolUses == 2         \* toolUse blocks the gateway emits into one conversation
MaxCatalogChanges == 1   \* catalog changes of the providers during a session
MaxListCalls == 2        \* Servers.list_tools calls on one opened group
MaxInitCalls == 3        \* initialize calls on one provider instance

\* ---------------------------------------------------------------- values
ToolNames == {"get_time", "lookup"}

Catalogs == {<<"lookup">>, <<"get_time", "lookup">>}

StopReasons == {"end_turn", "tool_use", "stop_sequence", "max_tokens"}

\* What a provider's execute_tool can do: return a result (success, or an
\* application-level error), or raise.
InvokeOutcomes == {"success", "error", "ConnectionError", "ValueError", "KeyError"}

RaisingOutcomes == {"ConnectionError", "ValueError", "KeyError"}

SystemPrompt == "You are a helpful assistant."

NoResponse == [stopReason |-> "none", content |-> <<>>]

NoCall == [messages |-> <<>>, system |-> "none", tools |-> <<>>]

NoExec == [name |-> "none", toolUseId |-> <<>>, seen |-> <<>>, invoked |-> 0,
           outcome |-> "none", raised |-> "none", response |-> <<>>]

\* A provider instance initialize was not called on: no transport connection
\* opened, no session.
NoConn == [calls |-> 0, opened |-> 0, session |-> 0, raised |-> "none"]

\* How an initialize call can go: it returns; the configured command or
\* function name is None; opening the transport raises; the handshake on the
\* opened transport raises.
InitializeOutcomes == {"ok", "config", "transport", "handshake"}

NoList == [calls |-> 0, seen |-> <<>>, tools |-> <<>>]

Range(s) == {s[x] : x \in DOMAIN s}

Reverse(s) == [x \in 1..Len(s) |-> s[Len(s) + 1 - x]]

VARIABLES
    state,                \* provider -> "Uninitialized" | "Ready" | "Closed"
    conn,                 \* provider -> its initialize calls and what they opened
    catalog,              \* provider -> its current catalog (tool names)
    changes,              \* number of catalog changes so far
    servers,              \* Servers.servers
    initialized_servers,  \* local of Servers.__aenter__
    initLog,              \* providers whose initialize was called, in order
    shutdownLog,          \* providers whose shutdown was called, in order
    pc,                   \* position of ChatSession.start
    k,                    \* loop position of Servers.__aenter__
    tools_description,    \* local of start
    messages,             \* local of start: the conversation
    i,                    \* number of utterances completed
    llm_response,         \* local of start
    final_response,       \* local of start
    j,                    \* loop position of execute_requested_tools
    tool_responses,       \* local of execute_requested_tools
    exc,                  \* exception in flight, "none" if none
    result,               \* how start ended: "running" | "returned" | "raised"
    last_call,            \* the last request given to the gateway
    calls,                \* gateway calls made for the current utterance
    last_exec,            \* the last Servers.execute_tool call
    last_list             \* the last Servers.list_tools call, and their number

vars == <<state, conn, catalog, changes, servers, initialized_servers, initLog,
          shutdownLog, pc, k, tools_description, messages, i, llm_response,
          final_response, j, tool_responses, exc, result, last_call, calls,
          last_exec, last_list>>

groupVars == <<state, conn, servers, initialized_servers, initLog, shutdownLog, k>>

loopVars == <<tools_description, messages, i, llm_response, final_response, j,
              tool_responses, last_call, calls, last_exec, last_list>>

\* ---------------------------------------------------------------- Tool
FormatForLlm(name) == [toolSpec |-> [name |-> name]]

\* ---------------------------------------------------------------- content blocks
TextBlock == [type |-> "text"]

ToolUseBlock(id, name) == [type |-> "toolUse", toolUseId |-> id, name |-> name]

ToolResultBlock(id, content, status) ==
    [type |-> "toolResult", toolUseId |-> id, content |-> content, status |-> status]

\* ---------------------------------------------------------------- StdioServer, LambdaFunctionClient
\* initialize of either variant, on an instance whose calls so far left c:
\* nothing looks at what an earlier call did.  A new transport connection is
\* opened by self._client.__aenter__() and self.session is assigned the session
\* on it before the handshake.
Initialize(c, outcome) ==
    [calls |-> c.calls + 1,
     opened |-> IF outcome \in {"ok", "handshake"} THEN c.opened + 1 ELSE c.opened,
     session |-> IF outcome \in {"ok", "handshake"} THEN c.opened + 1 ELSE c.session,
     raised |-> CASE outcome = "ok" -> "none"
                  [] outcome = "config" -> "ValueError"
                  [] OTHER -> "ConnectionError"]

\* ---------------------------------------------------------------- Servers
\* A faulty list_tools: a name a provider before has is left out.
RECURSIVE ListToolsFrom_NoDuplicates(_, _)
ListToolsFrom_NoDuplicates(ss, cat) ==
    IF ss = <<>> THEN <<>>
    ELSE LET rest == ListToolsFrom_NoDuplicates(SubSeq(ss, 1, Len(ss) - 1), cat) IN
         rest \o SelectSeq(cat[ss[Len(ss)]], LAMBDA name : name \notin Range(rest))

\* tools.extend(await server.list_tools()) for each server in self.servers
RECURSIVE ListToolsFrom(_, _)
ListToolsFrom(ss, cat) ==
    IF ss = <<>> THEN <<>>
    ELSE cat[Head(ss)] \o ListToolsFrom(Tail(ss), cat)

ListTools == ListToolsFrom(servers, catalog)

\* A faulty find_server_with_tool: the last provider that has the tool wins.
RECURSIVE FindFrom_LastMatch(_, _, _)
FindFrom_LastMatch(ss, cat, tool_name) ==
    IF ss = <<>> THEN 0
    ELSE LET later == FindFrom_LastMatch(Tail(ss), cat, tool_name) IN
         IF later # 0 THEN later
         ELSE IF tool_name \in Range(cat[Head(ss)]) THEN Head(ss)
         ELSE 0

\* 0 stands for the ValueError "Tool ... not found in any server".
RECURSIVE FindFrom(_, _, _)
FindFrom(ss, cat, tool_name) ==
    IF ss = <<>> THEN 0
    ELSE IF tool_name \in Range(cat[Head(ss)]) THEN Head(ss)
    ELSE FindFrom(Tail(ss), cat, tool_name)

\* Servers.list_tools returns: the call is recorded with the catalogs it read.
ListToolsReturn ==
    last_list' = [calls |-> last_list.calls + 1, seen |-> catalog,
                  tools |-> ListTools]

FindServerWithTool(tool_name) == FindFrom(servers, catalog, tool_name)

NotFoundResult(tool_name, tool_use_id) ==
    ToolResultBlock(tool_use_id,
                    <<[text |-> <<"No server found with tool: ", tool_name>>]>>,
                    "error")

\* The result a provider returns for an invocation that did not raise.
ServerResult(tool_use_id, outcome) ==
    ToolResultBlock(tool_use_id, <<[text |-> <<"tool output">>]>>, outcome)

\* A faulty Servers.execute_tool: no except clause, the ValueError of
\* find_server_with_tool leaves it.
ExecRaised_NoCatch(invoked, outcome) ==
    IF invoked = 0 THEN "ValueError"
    ELSE IF outcome \in RaisingOutcomes THEN outcome
    ELSE "none"

\* Servers.execute_tool, the provider found (0: none) and its outcome given:
\* the exception that leaves it, "none" if it returns.  Only ValueError is
\* caught.
ExecRaised(invoked, outcome) ==
    IF invoked # 0 /\ outcome \in RaisingOutcomes \ {"ValueError"} THEN outcome
    ELSE "none"

\* Servers.execute_tool: the value it returns when it returns.
ExecResponse(tool_name, tool_use_id, invoked, outcome) ==
    IF invoked = 0 \/ outcome = "ValueError"
    THEN NotFoundResult(tool_name, tool_use_id)
    ELSE ServerResult(tool_use_id, outcome)

\* The providers servers[from], servers[from - 1], .. servers[to], in that order.
ReversedRange(from, to) ==
    [x \in 1..(from - to + 1) |-> servers[from + 1 - x]]

\* ---------------------------------------------------------------- ChatSession
\* A faulty collection of the responses: the newest first.
AppendResponse_Prepend(responses, response) == <<response>> \o responses

\* tool_responses.append(response)
AppendResponse(responses, response) == Append(responses, response)

\* A faulty append: the conversation is a window of two turns.
AppendTurn_Window(msgs, turn) ==
    IF Len(msgs) >= 2 THEN Append(Tail(msgs), turn) ELSE Append(msgs, turn)

\* messages.append(turn)
AppendTurn(msgs, turn) == Append(msgs, turn)

\* A faulty tool turn: it has the role of the model.
ToolResultsTurn_AssistantRole(responses) ==
    [role |-> "assistant", content |-> responses]

\* A faulty tool turn: the last response is lost.
ToolResultsTurn_DropLast(responses) ==
    [role |-> "user", content |-> SubSeq(responses, 1, Len(responses) - 1)]

\* return {"role": "user", "content": tool_responses}
ToolResultsTurn(responses) == [role |-> "user", content |-> responses]

\* if tool_results: a dict is true when it has a key.
Truthy(turn) == DOMAIN turn # {}

\* The ValueError execute_requested_tools raises for an exception of its try block.
WrapError(raised) ==
    IF raised = "KeyError" THEN "ValueError: Missing required tool use field"
    ELSE "ValueError: Failed to execute tool"

\* content[0]["text"] of the print statements: the exception it raises.
FirstTextError(content) ==
    IF content = <<>> THEN "IndexError"
    ELSE IF content[1].type # "text" THEN "KeyError"
    ELSE "none"

\* ---------------------------------------------------------------- model gateway
\* The number of toolUse blocks in a conversation.
RECURSIVE ToolUseCount(_)
ToolUseCount(msgs) ==
    IF msgs = <<>> THEN 0
    ELSE Cardinality({x \in DOMAIN Head(msgs).content :
                        Head(msgs).content[x].type = "toolUse"})
         + ToolUseCount(Tail(msgs))

\* The shapes of a model turn's content: an optional text block, then at most
\* `budget` toolUse blocks.
ContentShapes(budget) ==
    {prefix \o uses : prefix \in {<<>>, <<"text">>},
                      uses \in UNION {[1..n -> ToolNames] : n \in 0..budget}}

\* The gateway's toolUseIds are fresh: a block's id is its place in the
\* conversation.
MakeContent(shape, turn) ==
    [x \in 1..Len(shape) |->
        IF shape[x] = "text" THEN TextBlock ELSE ToolUseBlock(<<turn, x>>, shape[x])]

Request == [messages |-> messages, system |-> SystemPrompt, tools |-> tools_description]

\* ---------------------------------------------------------------- Init
Init ==
    /\ state = [p \in 1..NumServers |-> "Uninitialized"]
    /\ conn = [p \in 1..NumServers |-> NoConn]
    /\ catalog = [p \in 1..NumServers |-> <<"lookup">>]
    /\ changes = 0
    /\ servers = [p \in 1..NumServers |-> p]
    /\ initialized_servers = <<>>
    /\ initLog = <<>>
    /\ shutdownLog = <<>>
    /\ pc = "open"
    /\ k = 1
    /\ tools_description = <<>>
    /\ messages = <<>>
    /\ i = 0
    /\ llm_response = NoResponse
    /\ final_response = NoResponse
    /\ j = 1
    /\ tool_responses = <<>>
    /\ exc = "none"
    /\ result = "running"
    /\ last_call = NoCall
    /\ calls = 0
    /\ last_exec = NoExec
    /\ last_list = NoList

\* ---------------------------------------------------------------- Servers.__aenter__
\* A faulty iteration: the provider is kept without being initialized.
OpenOk_SkipInitialize ==
    /\ pc = "open"
    /\ k <= Len(servers)
    /\ initialized_servers' = Append(initialized_servers, servers[k])
    /\ k' = k + 1
    /\ UNCHANGED <<state, conn, initLog, catalog, changes, servers, shutdownLog,
                   pc, exc, result>>
    /\ UNCHANGED loopVars

\* One iteration of the loop: the provider's initialize succeeds.
OpenOk ==
    /\ pc = "open"
    /\ k <= Len(servers)
    /\ initLog' = Append(initLog, servers[k])
    /\ state' = [state EXCEPT ![servers[k]] = "Ready"]
    /\ conn' = [conn EXCEPT ![servers[k]] = Initialize(@, "ok")]
    /\ initialized_servers' = Append(initialized_servers, servers[k])
    /\ k' = k + 1
    /\ UNCHANGED <<catalog, changes, servers, shutdownLog, pc, exc, result>>
    /\ UNCHANGED loopVars

\* One iteration of the loop: the provider's initialize raises; the exception
\* leaves __aenter__, and the async with statement of start with it: __aexit__
\* is not called.
OpenFail ==
    /\ pc = "open"
    /\ k <= Len(servers)
    /\ initLog' = Append(initLog, servers[k])
    /\ \E outcome \in InitializeOutcomes \ {"ok"} :
        conn' = [conn EXCEPT ![servers[k]] = Initialize(@, outcome)]
    /\ exc' = "InitError"
    /\ pc' = "done"
    /\ result' = "raised"
    /\ UNCHANGED <<state, catalog, changes, servers, initialized_servers,
                   shutdownLog, k>>
    /\ UNCHANGED loopVars

\* The loop is over: self.servers = initialized_servers; return self.
OpenDone ==
    /\ pc = "open"
    /\ k > Len(servers)
    /\ servers' = initialized_servers
    /\ pc' = "list"
    /\ UNCHANGED <<state, conn, catalog, changes, initialized_servers, initLog,
                   shutdownLog, k, exc, result>>
    /\ UNCHANGED loopVars

\* ---------------------------------------------------------------- Servers.__aexit__
\* start returns or raises: its locals are gone, and the request made of them
\* with them.
FrameGone ==
    /\ tools_description' = <<>>
    /\ messages' = <<>>
    /\ i' = 0
    /\ llm_response' = NoResponse
    /\ final_response' = NoResponse
    /\ j' = 1
    /\ tool_responses' = <<>>
    /\ last_call' = NoCall
    /\ calls' = 0

\* The block of the async with statement is left, with exception e or
\* normally ("none"): __aexit__ is called.
EnterClose(e) ==
    /\ pc' = "close"
    /\ exc' = e
    /\ UNCHANGED <<k, tools_description, messages, i, llm_response,
                   final_response, j, tool_responses>>

\* for server in reversed(self.servers): await server.__aexit__(...)
\* The shutdowns of servers[Len] .. servers[f + 1] return and, if f >= 1, the
\* shutdown of servers[f] raises: the exception leaves __aexit__ and start.
\* With f = 0 __aexit__ returns None and an exception in flight is raised again.
Close ==
    /\ pc = "close"
    /\ \E f \in 0..Len(servers) :
        LET called == ReversedRange(Len(servers), IF f = 0 THEN 1 ELSE f) IN
        /\ shutdownLog' = shutdownLog \o called
        /\ state' = [p \in DOMAIN state |->
                        IF p \in Range(called) THEN "Closed" ELSE state[p]]
        /\ exc' = IF f = 0 THEN exc ELSE "ShutdownError"
        /\ result' = IF f = 0 /\ exc = "none" THEN "returned" ELSE "raised"
    /\ pc' = "done"
    /\ FrameGone
    /\ UNCHANGED <<conn, catalog, changes, servers, initialized_servers, initLog,
                   k, last_exec, last_list>>

\* ---------------------------------------------------------------- ChatSession.start
\* all_tools = await server_manager.list_tools(); tools_description = ...
ListAllTools ==
    /\ pc = "list"
    /\ ListToolsReturn
    /\ tools_description' = [x \in 1..Len(ListTools) |-> FormatForLlm(ListTools[x])]
    /\ pc' = "next"
    /\ UNCHANGED <<catalog, changes, messages, i, llm_response, final_response, j,
                   tool_responses, exc, result, last_call, calls, last_exec>>
    /\ UNCHANGED groupVars

\* Head of the for loop: the next utterance is appended as a user turn.
NextUtterance ==
    /\ pc = "next"
    /\ i < NumUtterances
    /\ messages' = AppendTurn(messages, [role |-> "user", content |-> <<TextBlock>>])
    /\ calls' = 0
    /\ pc' = "llm1"
    /\ UNCHANGED <<catalog, changes, tools_description, i, llm_response,
                   final_response, j, tool_responses, exc, result, last_call,
                   last_exec, last_list>>
    /\ UNCHANGED groupVars

\* The for loop is exhausted: the async with block is left normally.
LoopEnd ==
    /\ pc = "next"
    /\ i >= NumUtterances
    /\ EnterClose("none")
    /\ UNCHANGED <<state, conn, catalog, changes, servers, initialized_servers,
                   initLog, shutdownLog, result, last_call, calls, last_exec,
                   last_list>>

\* llm_client.get_response raises.
GatewayFail ==
    /\ pc \in {"llm1", "llm2"}
    /\ last_call' = Request
    /\ calls' = calls + 1
    /\ EnterClose("GatewayError")
    /\ UNCHANGED <<state, conn, catalog, changes, servers, initialized_servers,
                   initLog, shutdownLog, result, last_exec, last_list>>

\* The messages a model call can return, as the turn-th turn of msgs.
Replies(msgs) ==
    {[stopReason |-> sr, content |-> MakeContent(shape, Len(msgs) + 1)] :
        sr \in StopReasons,
        shape \in ContentShapes(MaxToolUses - ToolUseCount(msgs))}

\* llm_response = self.llm_client.get_response(...): the first model call of an
\* utterance returns.
FirstResponse ==
    /\ pc = "llm1"
    /\ last_call' = Request
    /\ calls' = calls + 1
    /\ \E reply \in Replies(messages) : llm_response' = reply
    /\ pc' = "print1"
    /\ UNCHANGED <<catalog, changes, tools_description, messages, i,
                   final_response, j, tool_responses, exc, result, last_exec, last_list>>
    /\ UNCHANGED groupVars

\* The message start prints the first text of.
Printed == IF pc = "print1" THEN llm_response ELSE final_response

\* print(... ["content"][0]["text"]) raises: the message has no first block, or
\* its first block is not a text.
PrintFail ==
    /\ pc \in {"print1", "print2"}
    /\ FirstTextError(Printed.content) # "none"
    /\ EnterClose(FirstTextError(Printed.content))
    /\ UNCHANGED <<state, conn, catalog, changes, servers, initialized_servers,
                   initLog, shutdownLog, result, last_call, calls, last_exec,
                   last_list>>

\* The first text of llm_response is printed and its message appended;
\* execute_requested_tools is entered.
AppendFirst ==
    /\ pc = "print1"
    /\ FirstTextError(llm_response.content) = "none"
    /\ messages' = AppendTurn(messages, [role |-> "assistant",
                                         content |-> llm_response.content])
    /\ pc' = "tools"
    /\ j' = 1
    /\ tool_responses' = <<>>
    /\ UNCHANGED <<catalog, changes, tools_description, i, llm_response,
                   final_response, exc, result, last_call, calls, last_exec, last_list>>
    /\ UNCHANGED groupVars

\* execute_requested_tools, stop reason other than tool_use: returns None,
\* start goes to the next utterance.
NoToolUse ==
    /\ pc = "tools"
    /\ llm_response.stopReason # "tool_use"
    /\ i' = i + 1
    /\ llm_response' = NoResponse
    /\ pc' = "next"
    /\ UNCHANGED <<catalog, changes, tools_description, messages, final_response,
                   j, tool_responses, exc, result, last_call, calls, last_exec, last_list>>
    /\ UNCHANGED groupVars

\* execute_requested_tools, one iteration of the loop over the content:
\* a toolUse item is given to Servers.execute_tool.
ToolItem ==
    /\ pc = "tools"
    /\ llm_response.stopReason = "tool_use"
    /\ j <= Len(llm_response.content)
    /\ LET item == llm_response.content[j] IN
        IF item.type # "toolUse"
        THEN /\ j' = j + 1
             /\ UNCHANGED <<tool_responses, last_exec, pc, exc, k>>
             /\ UNCHANGED <<tools_description, messages, i, llm_response,
                            final_response, last_call, calls>>
        ELSE \E outcome \in InvokeOutcomes :
            LET invoked == FindServerWithTool(item.name)
                raised == ExecRaised(invoked, outcome)
                response == ExecResponse(item.name, item.toolUseId, invoked, outcome)
            IN
            /\ invoked = 0 => outcome = "success"
            /\ last_exec' = [name |-> item.name, toolUseId |-> item.toolUseId,
                             seen |-> catalog, invoked |-> invoked,
                             outcome |-> IF invoked = 0 THEN "none" ELSE outcome,
                             raised |-> raised,
                             response |-> IF raised = "none" THEN <<response>> ELSE <<>>]
            /\ IF raised = "none"
               THEN /\ tool_responses' = AppendResponse(tool_responses, response)
                    /\ j' = j + 1
                    /\ UNCHANGED <<pc, exc, k>>
                    /\ UNCHANGED <<tools_description, messages, i, llm_response,
                                   final_response, last_call, calls>>
               ELSE EnterClose(WrapError(raised)) /\ UNCHANGED <<last_call, calls>>
    /\ UNCHANGED <<state, conn, catalog, changes, servers, initialized_servers,
                   initLog, shutdownLog, result, last_list>>

\* execute_requested_tools returns the tool turn; start appends it if it is true.
ToolTurn ==
    /\ pc = "tools"
    /\ llm_response.stopReason = "tool_use"
    /\ j > Len(llm_response.content)
    /\ LET tool_results == ToolResultsTurn(tool_responses) IN
        IF Truthy(tool_results)
        THEN /\ messages' = AppendTurn(messages, tool_results)
             /\ pc' = "llm2"
             /\ UNCHANGED <<i, llm_response>>
        ELSE /\ i' = i + 1
             /\ llm_response' = NoResponse
             /\ pc' = "next"
             /\ UNCHANGED messages
    /\ UNCHANGED <<catalog, changes, tools_description, final_response, j,
                   tool_responses, exc, result, last_call, calls, last_exec, last_list>>
    /\ UNCHANGED groupVars

\* final_response = self.llm_client.get_response(...): the second model call
\* of an utterance returns.
FinalResponse ==
    /\ pc = "llm2"
    /\ last_call' = Request
    /\ calls' = calls + 1
    /\ \E reply \in Replies(messages) : final_response' = reply
    /\ pc' = "print2"
    /\ UNCHANGED <<catalog, changes, tools_description, messages, i,
                   llm_response, j, tool_responses, exc, result, last_exec, last_list>>
    /\ UNCHANGED groupVars

\* The first text of final_response is printed and its message appended: the
\* utterance is done.
AppendFinal ==
    /\ pc = "print2"
    /\ FirstTextError(final_response.content) = "none"
    /\ messages' = AppendTurn(messages, [role |-> "assistant",
                                         content |-> final_response.content])
    /\ i' = i + 1
    /\ llm_response' = NoResponse
    /\ final_response' = NoResponse
    /\ pc' = "next"
    /\ UNCHANGED <<catalog, changes, tools_description, j, tool_responses, exc,
                   result, last_call, calls, last_exec, last_list>>
    /\ UNCHANGED groupVars

\* ---------------------------------------------------------------- providers
\* The catalog of a connected provider changes while the session uses it.
CatalogChange ==
    /\ changes < MaxCatalogChanges
    /\ pc \in {"list", "next", "llm1", "print1", "tools", "llm2", "print2"}
    /\ \E p \in 1..NumServers, c \in Catalogs :
        /\ state[p] = "Ready"
        /\ c # catalog[p]
        /\ catalog' = [catalog EXCEPT ![p] = c]
    /\ changes' = changes + 1
    /\ UNCHANGED <<pc, exc, result>>
    /\ UNCHANGED groupVars
    /\ UNCHANGED loopVars

Next ==
    \/ OpenOk
    \/ OpenFail
    \/ OpenDone
    \/ ListAllTools
    \/ NextUtterance
    \/ LoopEnd
    \/ GatewayFail
    \/ FirstResponse
    \/ PrintFail
    \/ AppendFirst
    \/ NoToolUse
    \/ ToolItem
    \/ ToolTurn
    \/ FinalResponse
    \/ AppendFinal
    \/ Close
    \/ CatalogChange

Spec == Init /\ [][Next]_vars

\* ---------------------------------------------------------------- Servers.list_tools alone
\* The provider lists a group can be made of: any providers in any order.
ProviderLists ==
    {ss \in UNION {[1..n -> 1..NumServers] : n \in 0..NumServers} :
        \A x, y \in DOMAIN ss : x # y => ss[x] # ss[y]}

\* An opened group of any providers with any catalogs.
InitListTools ==
    /\ servers \in ProviderLists
    /\ catalog \in [1..NumServers -> Catalogs]
    /\ state = [p \in 1..NumServers |->
                   IF p \in Range(servers) THEN "Ready" ELSE "Uninitialized"]
    /\ conn = [p \in 1..NumServers |->
                  IF p \in Range(servers) THEN Initialize(NoConn, "ok") ELSE NoConn]
    /\ changes = 0
    /\ initialized_servers = servers
    /\ initLog = servers
    /\ shutdownLog = <<>>
    /\ pc = "list"
    /\ k = Len(servers) + 1
    /\ tools_description = <<>>
    /\ messages = <<>>
    /\ i = 0
    /\ llm_response = NoResponse
    /\ final_response = NoResponse
    /\ j = 1
    /\ tool_responses = <<>>
    /\ exc = "none"
    /\ result = "running"
    /\ last_call = NoCall
    /\ calls = 0
    /\ last_exec = NoExec
    /\ last_list = NoList

\* await server_manager.list_tools(), called on the opened group.
ListToolsCall ==
    /\ pc = "list"
    /\ last_list.calls < MaxListCalls
    /\ ListToolsReturn
    /\ UNCHANGED <<catalog, changes, pc, exc, result, tools_description, messages,
                   i, llm_response, final_response, j, tool_responses, last_call,
                   calls, last_exec>>
    /\ UNCHANGED groupVars

NextListTools ==
    \/ ListToolsCall
    \/ CatalogChange

SpecListTools == InitListTools /\ [][NextListTools]_vars

\* ---------------------------------------------------------------- initialize alone
\* initialize is called on a provider instance, whatever was called on it before.
InitializeCall ==
    /\ \E p \in 1..NumServers, outcome \in InitializeOutcomes :
        /\ conn[p].calls < MaxInitCalls
        /\ conn' = [conn EXCEPT ![p] = Initialize(@, outcome)]
        /\ state' = [state EXCEPT ![p] = IF outcome = "ok" THEN "Ready" ELSE @]
    /\ UNCHANGED <<catalog, changes, servers, initialized_servers, initLog,
                   shutdownLog, pc, k, exc, result>>
    /\ UNCHANGED loopVars

NextInitialize == InitializeCall

SpecInitialize == Init /\ [][NextInitialize]_vars

\* ---------------------------------------------------------------- vocabulary of the claims
\* Open returned to start: every initialize returned.
OpenSucceeded == pc # "open" /\ exc # "InitError"

\* start has returned or raised.
SessionEnded == result # "running"

ToolUses(turn) == SelectSeq(turn.content, LAMBDA b : b.type = "toolUse")

ToolResults(turn) == SelectSeq(turn.content, LAMBDA b : b.type = "toolResult")

Ids(blocks) == [x \in DOMAIN blocks |-> blocks[x].toolUseId]

\* A user turn that is not an utterance: the turn execute_requested_tools made.
IsToolTurn(turn) == turn.role = "user" /\ turn.content # <<TextBlock>>

\* The toolResult blocks of a conversation that carry the id, as places <<turn, block>>.
Answers(msgs, id) ==
    {at \in UNION {{<<t, x>> : x \in DOMAIN msgs[t].content} : t \in DOMAIN msgs} :
        /\ msgs[at[1]].content[at[2]].type = "toolResult"
        /\ msgs[at[1]].content[at[2]].toolUseId = id}

\* The place of the last utterance in a conversation that has one.
UtteranceStart(msgs) ==
    CHOOSE t \in DOMAIN msgs :
        /\ msgs[t] = [role |-> "user", content |-> <<TextBlock>>]
        /\ \A u \in DOMAIN msgs :
            u > t => msgs[u] # [role |-> "user", content |-> <<TextBlock>>]

\* A model message with stop reason tool_use that is one toolUse block, with or
\* without a text block before it.
OneToolUseTurn(reply) ==
    /\ reply.stopReason = "tool_use"
    /\ Len(ToolUses(reply)) = 1
    /\ \A x \in DOMAIN reply.content : reply.content[x].type \in {"text", "toolUse"}

\* ---------------------------------------------------------------- claims
\* C1: opening the provider group is all-or-nothing: when the initialize of
\* provider k raises, every provider initialized before it has been shut down
\* when the failure reaches the caller, so no provider is left initialized.
C1_FailedOpenLeavesNoneInitialized ==
    (SessionEnded /\ exc = "InitError") =>
        /\ \A p \in Range(initialized_servers) : p \in Range(shutdownLog)
        /\ \A p \in 1..NumServers : state[p] # "Ready"

\* C2: after a successful open, the sequence of shutdown calls that close has
\* issued when the session ends is the exact reverse of the sequence of
\* initialize calls.
C2_ShutdownIsReverseOfInitialize ==
    (SessionEnded /\ OpenSucceeded) => shutdownLog = Reverse(initLog)

\* C3: close continues on error: every provider that was initialized has had
\* exactly one shutdown call when close is over, also when a shutdown raised.
C3_EveryProviderShutDownOnce ==
    (SessionEnded /\ OpenSucceeded) =>
        \A p \in Range(initialized_servers) :
            Cardinality({x \in DOMAIN shutdownLog : shutdownLog[x] = p}) = 1

\* C4: once open has succeeded, every provider of the group is closed when
\* start returns or raises, whatever ended the conversation loop.
C4_AllClosedWhenSessionEnds ==
    (SessionEnded /\ OpenSucceeded) =>
        \A p \in Range(servers) : state[p] = "Closed"

\* C5: for a tool name in no provider's catalog, Servers.execute_tool does not
\* raise, calls no provider's execute_tool and returns a toolResult with status
\* error, the id it was given and a non-empty content naming the tool.
C5_UnknownToolIsInlineError ==
    (/\ last_exec.name # "none"
     /\ \A p \in Range(servers) : last_exec.name \notin Range(last_exec.seen[p]))
    =>
        /\ last_exec.raised = "none"
        /\ last_exec.invoked = 0
        /\ Len(last_exec.response) = 1
        /\ LET r == last_exec.response[1] IN
            /\ r.type = "toolResult"
            /\ r.status = "error"
            /\ r.toolUseId = last_exec.toolUseId
            /\ r.content # <<>>
            /\ last_exec.name \in Range(r.content[1].text)

\* C5 happens: a tool no provider has was asked for and answered inline.
C5_Witness ==
    /\ last_exec.name = "get_time"
    /\ \A p \in Range(servers) : "get_time" \notin Range(last_exec.seen[p])
    /\ Len(last_exec.response) = 1
    /\ pc = "llm2"

\* C6: routing is first match in registration order: the provider whose
\* execute_tool is called is the lowest-indexed one whose catalog, at the time of
\* the call, has the name; none is called if none has it.
C6_FirstMatchRouting ==
    last_exec.name # "none" =>
        LET owners == {x \in DOMAIN servers :
                          last_exec.name \in Range(last_exec.seen[servers[x]])}
        IN  IF owners = {} THEN last_exec.invoked = 0
            ELSE /\ last_exec.invoked # 0
                 /\ \E x \in owners :
                     /\ servers[x] = last_exec.invoked
                     /\ \A y \in owners : x <= y

\* C6 happens: two providers have the name, and the second call of a turn for
\* it goes to the first provider again.
C6_Witness ==
    /\ Len(servers) >= 2
    /\ last_exec.name # "none"
    /\ last_exec.name \in Range(last_exec.seen[servers[1]])
    /\ last_exec.name \in Range(last_exec.seen[servers[2]])
    /\ last_exec.invoked = servers[1]
    /\ Len(tool_responses) = 2
    /\ Len(ToolUses(llm_response)) = 2
    /\ ToolUses(llm_response)[1].name = ToolUses(llm_response)[2].name

\* C7: an exception raised by the owning provider's execute_tool, of whatever
\* kind, is fatal for the turn: it is not turned into a tool result and the
\* conversation does not go on.
C7_InvokeErrorIsFatal ==
    (last_exec.invoked # 0 /\ last_exec.outcome \in RaisingOutcomes) =>
        /\ last_exec.response = <<>>
        /\ exc # "none"
        /\ pc \in {"close", "done"}

\* C8: a model turn with stop reason tool_use and no toolUse block is fatal:
\* once execute_requested_tools is over, an error is in flight, no tool turn
\* has been appended and no second model call is made.
C8_EmptyToolUseIsFatal ==
    (/\ llm_response.stopReason = "tool_use"
     /\ ToolUses(llm_response) = <<>>
     /\ pc \notin {"print1", "tools"})
    =>
        /\ exc # "none"
        /\ pc \in {"close", "done"}
        /\ calls = 1
        /\ ~IsToolTurn(messages[Len(messages)])

\* C9: the tool turn appended after a model turn with stop reason tool_use has
\* exactly one toolResult block per toolUse block of that model turn, in the
\* same order, the x-th result carrying the id of the x-th toolUse.
C9_OneResultPerToolUse ==
    /\ \A t \in DOMAIN messages :
        IsToolTurn(messages[t]) =>
            /\ t > 1
            /\ messages[t - 1].role = "assistant"
            /\ ToolResults(messages[t]) = messages[t].content
            /\ Ids(messages[t].content) = Ids(ToolUses(messages[t - 1]))
    /\ pc = "llm2" =>
        /\ llm_response.stopReason = "tool_use"
        /\ IsToolTurn(messages[Len(messages)])
        /\ messages[Len(messages) - 1].content = llm_response.content

\* C9 happens: a turn asked for an unknown tool and then a known one, and the
\* tool turn answers both.
C9_Witness ==
    /\ pc = "llm2"
    /\ Len(ToolUses(llm_response)) = 2
    /\ LET turn == messages[Len(messages)] IN
        /\ Len(turn.content) = 2
        /\ turn.content[1].status = "error"
        /\ turn.content[2].status = "success"
        /\ turn.content[1].toolUseId # turn.content[2].toolUseId

\* Every toolUse block of the turn before the last of a conversation has
\* exactly one toolResult block with its id in the conversation, in the last turn.
LastToolUsesAnswered(msgs) ==
    /\ Len(msgs) >= 2
    /\ msgs[Len(msgs) - 1].role = "assistant"
    /\ IsToolTurn(msgs[Len(msgs)])
    /\ \A x \in DOMAIN msgs[Len(msgs) - 1].content :
        LET b == msgs[Len(msgs) - 1].content[x] IN
        b.type = "toolUse" =>
            /\ Cardinality(Answers(msgs, b.toolUseId)) = 1
            /\ \A at \in Answers(msgs, b.toolUseId) : at[1] = Len(msgs)

\* C10 as stated: in every conversation given to the model, every toolUse block
\* of every assistant turn but the last has exactly one toolResult block with
\* its id in the conversation.
C10_EveryToolUseAnswered ==
    LET sent == last_call.messages IN
    \A n \in 1..(Len(sent) - 1) :
        sent[n].role = "assistant" =>
            \A x \in DOMAIN sent[n].content :
                sent[n].content[x].type = "toolUse" =>
                    Cardinality(Answers(sent, sent[n].content[x].toolUseId)) = 1

\* C10 amended: every toolUse block of the first model turn of an utterance
\* whose stop reason is tool_use is answered by exactly one toolResult block
\* with its id, in the turn appended right after it, in the conversation the
\* second model call of the utterance is given.
C10_ToolUseTurnAnswered ==
    /\ pc = "llm2" =>
        /\ llm_response.stopReason = "tool_use"
        /\ messages[Len(messages) - 1].content = llm_response.content
        /\ LastToolUsesAnswered(messages)
    /\ calls = 2 => LastToolUsesAnswered(last_call.messages)

\* C10 happens: the second model call of an utterance was given a conversation
\* whose tool_use turn has two toolUse blocks.
C10_Witness ==
    /\ calls = 2
    /\ Len(ToolUses(last_call.messages[Len(last_call.messages) - 1])) = 2

\* C11: an utterance whose first model message has stop reason tool_use and is
\* one toolUse block, with or without a text block, gets that message appended
\* and its tool dispatched; when the second model message is appended the
\* conversation has grown by exactly 4 turns: user, assistant/tool_use,
\* user/toolResult, assistant/final.
C11_ToolUseUtteranceGrowsByFour ==
    [][/\ (pc = "print1" /\ OneToolUseTurn(llm_response)) =>
            pc' \in {"print1", "tools"}
       /\ (pc = "print2" /\ pc' = "next" /\ OneToolUseTurn(llm_response)) =>
            LET s == UtteranceStart(messages) IN
            /\ Len(messages') = s + 3
            /\ SubSeq(messages', 1, s) = SubSeq(messages, 1, s)
            /\ messages'[s + 1] = [role |-> "assistant",
                                   content |-> llm_response.content]
            /\ messages'[s + 2].role = "user"
            /\ Len(messages'[s + 2].content) = 1
            /\ messages'[s + 2].content[1].type = "toolResult"
            /\ messages'[s + 2].content[1].toolUseId
                   = ToolUses(llm_response)[1].toolUseId
            /\ messages'[s + 3] = [role |-> "assistant",
                                   content |-> final_response.content]
            /\ messages'[s + 3].content[1] = TextBlock
      ]_vars

\* A model message with stop reason tool_use that asks for a tool no provider
\* has.
RequestsUnknownTool(reply) ==
    /\ reply.stopReason = "tool_use"
    /\ \E x \in DOMAIN reply.content :
        /\ reply.content[x].type = "toolUse"
        /\ FindServerWithTool(reply.content[x].name) = 0

\* The last tool the current model turn had dispatched was in no catalog.
UnknownToolDispatched ==
    /\ last_exec.name # "none"
    /\ last_exec.invoked = 0
    /\ last_exec.toolUseId \in Range(Ids(ToolUses(llm_response)))

\* C12: a model turn asking for a tool no provider has does not end the
\* session: the turn is appended and dispatched, the dispatch of the unknown
\* tool adds the error result and goes on, the tool turn with it is appended
\* and the model is called again, and when that call returns the utterance
\* completes and the loop is at the next utterance.
C12_UnknownToolDoesNotEndSession ==
    [][/\ (pc = "print1" /\ RequestsUnknownTool(llm_response)) =>
            pc' \in {"print1", "tools"}
       /\ (/\ pc = "tools"
           /\ llm_response.stopReason = "tool_use"
           /\ j <= Len(llm_response.content)
           /\ llm_response.content[j].type = "toolUse"
           /\ FindServerWithTool(llm_response.content[j].name) = 0) =>
            /\ pc' = "tools"
            /\ j' # j =>
                /\ Len(tool_responses') = Len(tool_responses) + 1
                /\ tool_responses'[Len(tool_responses')].status = "error"
                /\ tool_responses'[Len(tool_responses')].toolUseId
                       = llm_response.content[j].toolUseId
       /\ (/\ pc = "tools"
           /\ j > Len(llm_response.content)
           /\ UnknownToolDispatched
           /\ pc' # pc) =>
            /\ pc' = "llm2"
            /\ messages' = Append(messages, [role |-> "user",
                                             content |-> tool_responses])
       /\ (pc = "print2" /\ UnknownToolDispatched) =>
            /\ pc' \in {"print2", "next"}
            /\ pc' = "next" => i' = i + 1 /\ calls = 2
      ]_vars

\* C13: a first model message of an utterance with stop reason end_turn,
\* stop_sequence or max_tokens is appended and the utterance completes with no
\* tool dispatch: no Servers.execute_tool call, no tool turn, one model call,
\* the conversation two turns longer (user, assistant) than before the
\* utterance, and the loop at the next utterance.
C13_NoDispatchWithoutToolUse ==
    [][(llm_response.stopReason \in StopReasons \ {"tool_use"}) =>
        /\ pc = "print1" => pc' \in {"print1", "tools"}
        /\ pc = "tools" =>
            /\ last_exec' = last_exec
            /\ tool_responses' = <<>>
            /\ pc' \in {"tools", "next"}
            /\ pc' = "next" =>
                /\ i' = i + 1
                /\ calls = 1
                /\ messages' = messages
                /\ Len(messages) = UtteranceStart(messages) + 1
                /\ messages[Len(messages)].role = "assistant"
      ]_vars

\* C14: the first model call of every utterance is given the full conversation
\* so far, the fixed system prompt and the rendering of what list_tools yields
\* for the providers' catalogs at the time of the call, so a catalog that
\* changed since the session was opened is in it.
C14_FirstCallSeesCurrentCatalog ==
    [][(pc = "llm1" /\ pc' = "print1") =>
        /\ last_call'.messages = messages
        /\ last_call'.system = SystemPrompt
        /\ last_call'.tools = [x \in 1..Len(ListTools) |-> FormatForLlm(ListTools[x])]
      ]_vars

\* The number of tools of the first n providers of ss.
RECURSIVE ToolsBefore(_, _, _)
ToolsBefore(ss, cat, n) ==
    IF n = 0 THEN 0 ELSE ToolsBefore(ss, cat, n - 1) + Len(cat[ss[n]])

\* C15: Servers.list_tools returns the catalogs of the providers one after the
\* other in registration order, every entry kept (a name two providers have is
\* there twice); the call changes no provider state and no conversation; a
\* call that follows a call with no catalog change in between returns the same
\* sequence.
C15_ListToolsIsConcatenation ==
    /\ [](last_list.calls > 0 =>
            /\ Len(last_list.tools)
                   = ToolsBefore(servers, last_list.seen, Len(servers))
            /\ \A x \in DOMAIN servers :
                \A y \in DOMAIN last_list.seen[servers[x]] :
                    last_list.tools[ToolsBefore(servers, last_list.seen, x - 1) + y]
                        = last_list.seen[servers[x]][y])
    /\ [][last_list'.calls = last_list.calls + 1 =>
            /\ UNCHANGED <<state, catalog, servers, messages>>
            /\ (last_list.calls > 0 /\ last_list.seen = catalog) =>
                   last_list'.tools = last_list.tools
         ]_vars

\* C15 happens: a second call with the catalogs unchanged, on two providers
\* that both have "lookup", the second registered first.
C15_Witness ==
    /\ last_list.calls = 2
    /\ last_list.seen = catalog
    /\ servers = <<2, 1>>
    /\ catalog[1] # catalog[2]
    /\ Cardinality({x \in DOMAIN last_list.tools : last_list.tools[x] = "lookup"}) = 2

\* C16: an initialize call on a provider instance initialize was already
\* called on raises, opens no transport connection and leaves the session of
\* the instance as it was.
C16_SecondInitializeFailsFast ==
    [][\A p \in 1..NumServers :
        (conn[p].calls >= 1 /\ conn'[p].calls = conn[p].calls + 1) =>
            /\ conn'[p].raised # "none"
            /\ conn'[p].opened = conn[p].opened
            /\ conn'[p].session = conn[p].session
      ]_vars

\* C17: the conversation is append-only: as long as start has not ended, every
\* step leaves the conversation it found as a prefix of the conversation it
\* leaves, the steps in which a model call, a print or a tool dispatch fails
\* included.
C17_ConversationIsAppendOnly ==
    [][pc' # "done" =>
        /\ Len(messages') >= Len(messages)
        /\ SubSeq(messages', 1, Len(messages)) = messages
      ]_vars

\* C17 happens: a tool dispatch failed in the second utterance, and the turns
\* of the first utterance and the tool_use turn of the second are still there.
C17_Witness ==
    /\ pc = "close"
    /\ exc = "ValueError: Failed to execute tool"
    /\ i = 1
    /\ Len(messages) >= 4
    /\ messages[Len(messages)] = [role |-> "assistant",
                                  content |-> llm_response.content]

\* The positions of start inside the block of its async with statement.
InBlock == pc \in {"list", "next", "llm1", "print1", "tools", "llm2", "print2"}

\* C18: every list_tools and execute_tool call a provider gets from the session
\* is made while the provider is Ready: the providers of the group are Ready
\* all the time start is inside the block, Servers.list_tools and
\* Servers.execute_tool are called there only, and a provider's state only goes
\* from Uninitialized to Ready and from Ready to Closed.
C18_CallsReachReadyProvidersOnly ==
    /\ [](InBlock => \A p \in Range(servers) : state[p] = "Ready")
    /\ [][/\ (last_list' # last_list \/ last_exec' # last_exec) =>
                /\ InBlock
                /\ \A p \in Range(servers) : state[p] = "Ready" /\ state'[p] = "Ready"
           /\ (last_exec'.invoked # 0 => last_exec'.invoked \in Range(servers))
           /\ \A p \in DOMAIN state :
                state'[p] # state[p] =>
                    \/ state[p] = "Uninitialized" /\ state'[p] = "Ready"
                    \/ state[p] = "Ready" /\ state'[p] = "Closed"
         ]_vars

\* C18 happens: the session listed the tools, had a provider execute one, and
\* closed every provider afterwards.
C18_Witness ==
    /\ pc = "done"
    /\ last_list.calls = 1
    /\ last_exec.invoked # 0
    /\ \A p \in Range(servers) : state[p] = "Closed"

\* Turns at odd places are user turns, turns at even places assistant turns.
Alternates(msgs) ==
    \A t \in DOMAIN msgs :
        msgs[t].role = IF t % 2 = 1 THEN "user" ELSE "assistant"

\* C19: every conversation given to the model starts with a user turn, ends
\* with a user turn and alternates user and assistant turns; the model is
\* called at most twice per utterance; an utterance that completes leaves the
\* conversation 2 or 4 turns longer than it found it.
C19_AlternatingConversation ==
    /\ [](/\ calls <= 2
          /\ last_call # NoCall =>
                /\ last_call.messages # <<>>
                /\ Alternates(last_call.messages)
                /\ last_call.messages[Len(last_call.messages)].role = "user")
    /\ [][(InBlock /\ pc # "list" /\ pc # "next" /\ pc' = "next") =>
            Len(messages') - (UtteranceStart(messages') - 1) \in {2, 4}
         ]_vars

\* C19 happens: two utterances completed, one of two turns and one of four.
C19_Witness ==
    /\ pc = "next"
    /\ i = 2
    /\ Len(messages) = 6
    /\ calls = 2
    /\ Len(last_call.messages) = 5

====
